---- MODULE Spec2Model ----
(***************************************************************************)
(* A model of the B+Tree index of Project2A (BTreeIndex.cc): the index     *)
(* object (rootPid, treeHeight, scratch buffer, page file), its open,      *)
(* close, insert, locate and readForward operations, and the index files   *)
(* it works on.  The page file and the leaf / non-leaf node classes are    *)
(* not part of the reviewed source; they are modelled from the design      *)
(* document.                                                               *)
(***************************************************************************)
EXTENDS Integers, Sequences, FiniteSets, TLC

(* ------------------------------ bounds -------------------------------- *)

\* Cap on the entries one scan of the leaf chain reads.
ScanFuel == 8
\* Number of index files on disk.
NumFiles == 2
\* Largest page id / entry id a client puts into a cursor by hand.
MaxCursor == 3
\* Cap on the iterations of locate's descent loop (the loop has no bound of
\* its own when treeHeight < 1).
MaxIter == 3

Files == 1..NumFiles
\* The entry ids a client puts into a cursor by hand: negative, first, past
\* the end of every leaf; readForward and locate give the ones in between.
CursorEids == {-1, 0, MaxCursor}
SearchKeys == {5, 20, 35, 60}
InsertKeys == {25}
\* The record id the record file hands out for a key (opaque to the index).
RidOf(k) == k + 100

(* --------------------------- return codes ----------------------------- *)

OK == "OK"
IOError == "IOError"
InvalidIndex == "InvalidIndex"
RC_NO_SUCH_RECORD == "RC_NO_SUCH_RECORD"
RC_INVALID_CURSOR == "RC_INVALID_CURSOR"

(* ------------------- index files found on disk ------------------------ *)
\* What an index file holds before the program first touches it:
\*   "absent"  no file
\*   "empty"   an empty tree written by a conforming implementation
\*   "h1"      one leaf (page 1) that is the root
\*   "h2"      leaves on pages 1 and 2, the root (an internal node) on page 3
\*   "h0"      one leaf (page 1) under a page 0 that gives root 1 and height 0
Images == {"absent", "empty", "h0", "h1", "h2"}

ImageEndPid(img) ==
  CASE img = "absent" -> 0
    [] img = "empty" -> 1
    [] img = "h0" -> 2
    [] img = "h1" -> 2
    [] img = "h2" -> 4

\* A place for each kind of file in the order the files are listed in.
ImageRank(img) ==
  CASE img = "absent" -> 0
    [] img = "empty" -> 1
    [] img = "h0" -> 2
    [] img = "h1" -> 3
    [] img = "h2" -> 4

\* Page 0 of the file: <<bytes 0..3, bytes 4..7>> read as two ints.
ImageMeta(img) ==
  CASE img = "absent" -> <<0, 0>>
    [] img = "empty" -> <<-1, 0>>
    [] img = "h0" -> <<1, 0>>
    [] img = "h1" -> <<1, 1>>
    [] img = "h2" -> <<3, 2>>

\* The end-of-chain value of a leaf's next pointer.
EndOfChain == 0

Leaf(es, nx) == [kind |-> "leaf", entries |-> es, keys |-> <<>>, children |-> <<>>, next |-> nx]
Internal(ks, cs) == [kind |-> "internal", entries |-> <<>>, keys |-> ks, children |-> cs, next |-> EndOfChain]
NoNode == [kind |-> "none", entries |-> <<>>, keys |-> <<>>, children |-> <<>>, next |-> EndOfChain]

Entry(k) == <<k, RidOf(k)>>

\* The node stored on page pid of a file with the given image.
ImageNode(img, pid) ==
  CASE img \in {"h0", "h1"} /\ pid = 1 -> Leaf(<<Entry(10), Entry(20)>>, EndOfChain)
    [] img = "h2" /\ pid = 1 -> Leaf(<<Entry(10), Entry(20), Entry(30)>>, 2)
    [] img = "h2" /\ pid = 2 -> Leaf(<<Entry(40), Entry(50)>>, EndOfChain)
    [] img = "h2" /\ pid = 3 -> Internal(<<40>>, <<1, 2>>)
    [] OTHER -> NoNode

\* What decoding a page as a leaf can give when the page holds no leaf (page
\* 0, or an internal node): the layout is implementation-defined, so any of
\* these.
GarbageLeaves == {Leaf(<<>>, EndOfChain), Leaf(<<Entry(7)>>, EndOfChain), Leaf(<<Entry(7)>>, 1)}

(* ------------------------------ state --------------------------------- *)

VARIABLES
  image,       \* image[f]: what file f held at the start (its node pages never change)
  endPid,      \* endPid[f]: number of pages of file f (PageFile::endPid)
  meta,        \* meta[f]: page 0 of file f, <<bytes 0..3, bytes 4..7>>
  inserted,    \* the entries Index.insert accepted since the file was opened (history)
  closedAt,    \* the file, rootPid and treeHeight of the successful close that the next open follows (history)
  pf,          \* the file the index's PageFile has open, 0 when closed
  rootPid,     \* BTreeIndex::rootPid
  treeHeight,  \* BTreeIndex::treeHeight
  buffer,      \* BTreeIndex::buffer, <<bytes 0..3, bytes 4..7>>
  fresh,       \* the index object has not been opened since its construction (history)
  cursor,      \* the caller's IndexCursor [pid, eid]
  track,       \* where the cursor's value comes from: the caller, locate or readForward,
               \* and whether readForward moved it off the last entry of the last leaf (history)
  pc,          \* "idle", or "descend" while locate is in its loop
  searchKey,   \* locate's argument
  curHeight,   \* locate's local
  nextChild,   \* locate's local
  res,         \* the last call and what it returned
  load,        \* SqlEngine::load: where it is, its record file, the lines left to read
  sel          \* SqlEngine::select: the table left to scan, the conditions, the matches

\* The variables of the index and of its files.
ivars == <<image, endPid, meta, inserted, closedAt, pf, rootPid, treeHeight, buffer,
           fresh, cursor, track, pc, searchKey, curHeight, nextChild, res>>

vars == <<ivars, load, sel>>

LoadIdle == [pc |-> "idle", rf |-> FALSE, idx |-> FALSE, input |-> <<>>, rc |-> OK]

SelIdle ==
  [pc |-> "idle", all |-> <<>>, table |-> <<>>, cond |-> <<>>, matched |-> <<>>,
   count |-> 0, rc |-> OK]

NoClose == [file |-> 0, root |-> 0, height |-> 0]

NoRes ==
  [op |-> "none", rc |-> OK, key |-> 0, rid |-> 0, fresh |-> FALSE, created |-> FALSE,
   page0 |-> <<0, 0>>, empty |-> FALSE, atEnd |-> FALSE, lrc |-> "", lkey |-> 0,
   reads |-> 0, sound |-> FALSE, closed |-> NoClose, pid |-> 0, eid |-> 0]

NoCursor == [pid |-> 0, eid |-> 0]

ClientTrack == [src |-> "client", key |-> 0, rc |-> "", ended |-> FALSE]

(* ---------------------------- page file ------------------------------- *)

\* PageFile::read(pid, ...) succeeds: the file is open and the page exists.
PfReadable(pid) == pf # 0 /\ pid >= 0 /\ pid < endPid[pf]

\* BTLeafNode::read then the node's accessors: the leaves the page can decode to.
LeafViews(pid) ==
  IF ImageNode(image[pf], pid).kind = "leaf"
  THEN {ImageNode(image[pf], pid)}
  ELSE GarbageLeaves

(* ------------------------------ nodes --------------------------------- *)

KeyCount(leaf) == Len(leaf.entries)

\* BTLeafNode::locate: the first entry index (from 0) whose key is >= searchKey.
LeafInsertionPoint(leaf, k) ==
  Cardinality({i \in 1..KeyCount(leaf) : leaf.entries[i][1] < k})

LeafLocateRc(leaf, k) ==
  IF \E i \in 1..KeyCount(leaf) : leaf.entries[i][1] = k THEN OK ELSE RC_NO_SUCH_RECORD

\* BTLeafNode::readEntry
LeafReadEntryRc(leaf, eid) ==
  IF eid < 0 \/ eid >= KeyCount(leaf) THEN InvalidIndex ELSE OK

\* BTNonLeafNode::locateChildPtr: the child left of the first key > searchKey.
ChildPtr(node, k) ==
  node.children[Cardinality({i \in 1..Len(node.keys) : node.keys[i] <= k}) + 1]

\* BTNonLeafNode::read then locateChildPtr: the child pointers the page can give.
\* A page that holds no internal node decodes to anything.
ChildViews(pid, k) ==
  IF ImageNode(image[pf], pid).kind = "internal"
  THEN {ChildPtr(ImageNode(image[pf], pid), k)}
  ELSE -1..MaxCursor

(* ------------------------------ index --------------------------------- *)

\* memcpy(buffer + off, &v, sizeof(int)) on the two ints the buffer is read as.
Memcpy(buf, off, v) == [buf EXCEPT ![(off \div 4) + 1] = v]

IndexInit ==
  /\ image \in [Files -> Images]
  \* the files are interchangeable: only one order of their contents is listed
  /\ \A f, g \in Files : f < g => ImageRank(image[f]) <= ImageRank(image[g])
  /\ endPid = [f \in Files |-> ImageEndPid(image[f])]
  /\ meta = [f \in Files |-> ImageMeta(image[f])]
  /\ inserted = {}
  /\ closedAt = NoClose
  /\ pf = 0
  /\ rootPid = -1
  /\ treeHeight = 0
  /\ buffer = <<0, 0>>
  /\ fresh = TRUE
  /\ cursor = NoCursor
  /\ track = ClientTrack
  /\ pc = "idle"
  /\ searchKey = 0
  /\ curHeight = 0
  /\ nextChild = 0
  /\ res = NoRes

Init ==
  /\ IndexInit
  /\ load = LoadIdle
  /\ sel = SelIdle

\* The callers (SqlEngine::load) give up an index whose open failed: they
\* return without another call on it.
Usable == ~(res.op = "open" /\ res.rc # OK)

\* BTreeIndex::BTreeIndex: a new index object, its page file closed, replaces
\* the old one.
NewIndex ==
  /\ pc = "idle"
  /\ pf = 0 \/ ~Usable
  /\ ~fresh
  /\ pf' = 0
  /\ rootPid' = -1
  /\ treeHeight' = 0
  /\ buffer' = <<0, 0>>
  /\ fresh' = TRUE
  /\ res' = [NoRes EXCEPT !.op = "new"]
  /\ UNCHANGED <<image, endPid, meta, inserted, closedAt, cursor, track, pc,
                 searchKey, curHeight, nextChild>>

\* The test of the loaded metadata in open.
ValidMeta(loadPid, loadHeight) == loadPid > 0 /\ loadHeight >= 0

\* BTreeIndex::open(indexname, mode); io: page 0 is read / written without an I/O error.
\* Called on an index whose page file is closed.
Open(f, mode, io) ==
  /\ pc = "idle"
  /\ pf = 0
  /\ fresh' = FALSE
  /\ inserted' = {}
  /\ track' = ClientTrack
  /\ closedAt' = NoClose
  /\ IF mode = "r" /\ endPid[f] = 0
     THEN \* pf.open fails: no such file
          /\ res' = [NoRes EXCEPT !.op = "open", !.rc = IOError, !.fresh = fresh]
          /\ UNCHANGED <<endPid, meta, pf, rootPid, treeHeight, buffer>>
     ELSE IF endPid[f] = 0
     THEN \* a file opened for the first time
          /\ pf' = f
          /\ rootPid' = -1
          /\ treeHeight' = 0
          /\ IF io
             THEN /\ meta' = [meta EXCEPT ![f] = buffer]
                  /\ endPid' = [endPid EXCEPT ![f] = 1]
             ELSE UNCHANGED <<meta, endPid>>
          /\ res' = [NoRes EXCEPT !.op = "open", !.rc = IF io THEN OK ELSE IOError,
                                  !.fresh = fresh, !.created = TRUE]
          /\ UNCHANGED buffer
     ELSE IF ~io
     THEN \* pf.read(0, buffer) fails
          /\ pf' = f
          /\ res' = [NoRes EXCEPT !.op = "open", !.rc = IOError, !.fresh = fresh]
          /\ UNCHANGED <<endPid, meta, rootPid, treeHeight, buffer>>
     ELSE /\ pf' = f
          /\ buffer' = meta[f]
          /\ IF ValidMeta(meta[f][1], meta[f][2])
             THEN /\ rootPid' = meta[f][1]
                  /\ treeHeight' = meta[f][2]
             ELSE UNCHANGED <<rootPid, treeHeight>>
          /\ res' = [NoRes EXCEPT !.op = "open", !.rc = OK, !.fresh = fresh,
                                  !.page0 = meta[f],
                                  !.closed = IF closedAt.file = f THEN closedAt ELSE NoClose]
          /\ UNCHANGED <<endPid, meta>>
  /\ UNCHANGED <<image, cursor, pc, searchKey, curHeight, nextChild>>

\* The buffer close() writes to page 0.
CloseBuffer == Memcpy(Memcpy(buffer, 0, rootPid), 0, treeHeight)

\* Whether close() goes on to pf.close() given that pf.write(0, buffer) succeeded or not.
CloseReleases(written) == written

\* BTreeIndex::close(); io: page 0 is written without an I/O error.
Close(io) ==
  /\ pc = "idle"
  /\ pf # 0
  /\ Usable
  /\ buffer' = CloseBuffer
  /\ IF io
     THEN /\ meta' = [meta EXCEPT ![pf] = CloseBuffer]
          /\ closedAt' = [file |-> pf, root |-> rootPid, height |-> treeHeight]
     ELSE UNCHANGED <<meta, closedAt>>
  /\ pf' = IF CloseReleases(io) THEN 0 ELSE pf
  /\ res' = [NoRes EXCEPT !.op = "close", !.rc = IF io THEN OK ELSE IOError]
  \* A cursor does not outlive the session it was used in: the caller of a
  \* later session starts from a cursor it sets itself (SetCursor).
  /\ IF pf' = 0
     THEN /\ cursor' = NoCursor
          /\ track' = ClientTrack
          /\ inserted' = {}
     ELSE UNCHANGED <<cursor, track, inserted>>
  /\ UNCHANGED <<image, endPid, rootPid, treeHeight, fresh, pc, searchKey, curHeight,
                 nextChild>>

\* BTreeIndex::insert(key, rid): returns 0 and does nothing else.
Insert(k) ==
  /\ pc = "idle"
  /\ pf # 0
  /\ Usable
  /\ inserted' = inserted \cup {Entry(k)}
  /\ res' = [NoRes EXCEPT !.op = "insert", !.rc = OK, !.key = k, !.rid = RidOf(k),
                          !.empty = (treeHeight = 0)]
  /\ UNCHANGED <<image, endPid, meta, closedAt, pf, rootPid, treeHeight, buffer, fresh,
                 cursor, track, pc, searchKey, curHeight, nextChild>>

\* A caller puts a page id and an entry id into its cursor.
SetCursor(pid, eid) ==
  /\ pc = "idle"
  /\ pf # 0
  /\ Usable
  /\ cursor' = [pid |-> pid, eid |-> eid]
  /\ track' = ClientTrack
  /\ res' = [NoRes EXCEPT !.op = "setCursor"]
  /\ UNCHANGED <<image, endPid, meta, inserted, closedAt, pf, rootPid, treeHeight, buffer,
                 fresh, pc, searchKey, curHeight, nextChild>>

\* The index in memory has the empty tree.
EmptyTree == rootPid = -1 /\ treeHeight = 0

\* The index in memory has the root and the height of the tree its file holds.
SoundTree ==
  /\ pf # 0
  /\ image[pf] \in {"h1", "h2"}
  /\ <<rootPid, treeHeight>> = ImageMeta(image[pf])

\* BTreeIndex::locate(searchKey, cursor), up to its loop.
LocateBegin(k) ==
  /\ pc = "idle"
  /\ pf # 0
  /\ Usable
  /\ pc' = "descend"
  /\ searchKey' = k
  /\ curHeight' = 1
  /\ nextChild' = rootPid
  /\ res' = [NoRes EXCEPT !.op = "locating", !.key = k]
  /\ UNCHANGED <<image, endPid, meta, inserted, closedAt, pf, rootPid, treeHeight, buffer,
                 fresh, cursor, track>>

LocateRes(rc, nreads) ==
  [NoRes EXCEPT !.op = "locate", !.rc = rc, !.key = searchKey, !.empty = EmptyTree,
                !.reads = nreads, !.sound = SoundTree]

\* One iteration of locate's loop: read the non-leaf node, follow the child pointer.
LocateDescend ==
  /\ pc = "descend"
  /\ curHeight # treeHeight
  /\ curHeight < MaxIter \/ curHeight < treeHeight
  /\ IF ~PfReadable(nextChild)
     THEN /\ res' = LocateRes(IOError, curHeight - 1)
          /\ pc' = "idle"
          /\ searchKey' = 0
          /\ curHeight' = 0
          /\ nextChild' = 0
     ELSE /\ \E c \in ChildViews(nextChild, searchKey) : nextChild' = c
          /\ curHeight' = curHeight + 1
          /\ UNCHANGED <<res, pc, searchKey>>
  /\ UNCHANGED <<image, endPid, meta, inserted, closedAt, pf, rootPid, treeHeight, buffer,
                 fresh, cursor, track>>

\* A locate that sets the cursor only when it found the key.
LocatedCursor_foundOnly(rc, pid, eid, old) ==
  IF rc = OK THEN [pid |-> pid, eid |-> eid] ELSE old

\* The cursor locate leaves once BTLeafNode::locate returned rc and eid for the
\* leaf on page pid: set in the not-found branch and in the found branch alike.
LocatedCursor(rc, pid, eid, old) == [pid |-> pid, eid |-> eid]

\* locate after its loop: read the leaf, locate the key in it, set the cursor.
LocateLeaf ==
  /\ pc = "descend"
  /\ curHeight = treeHeight
  /\ pc' = "idle"
  /\ searchKey' = 0
  /\ curHeight' = 0
  /\ nextChild' = 0
  /\ IF ~PfReadable(nextChild)
     THEN /\ res' = LocateRes(IOError, curHeight - 1)
          /\ UNCHANGED <<cursor, track>>
     ELSE \E leaf \in LeafViews(nextChild) :
          /\ cursor' = LocatedCursor(LeafLocateRc(leaf, searchKey), nextChild,
                                     LeafInsertionPoint(leaf, searchKey), cursor)
          /\ res' = LocateRes(LeafLocateRc(leaf, searchKey), curHeight)
          /\ track' = [src |-> "locate", key |-> searchKey,
                       rc |-> LeafLocateRc(leaf, searchKey), ended |-> FALSE]
  /\ UNCHANGED <<image, endPid, meta, inserted, closedAt, pf, rootPid, treeHeight, buffer,
                 fresh>>

\* A readForward that takes only negative page ids for out of range.
CursorOutOfRange_negative(c) == c.pid < 0

\* The test of the cursor's page id in readForward.
CursorOutOfRange(c) == c.pid <= 0

\* A readForward that never steps to the next leaf.
Advance_sameLeaf(c, leaf) == [pid |-> c.pid, eid |-> c.eid + 1]

\* The cursor readForward leaves after reading entry c.eid of the leaf.
Advance(c, leaf) ==
  IF c.eid + 1 < KeyCount(leaf)
  THEN [pid |-> c.pid, eid |-> c.eid + 1]
  ELSE [pid |-> leaf.next, eid |-> 0]

\* A readForward that moves the cursor before it tests the cursor's page id.
ReadForwardOf_advanceFirst(c, readable, leaf) ==
  IF ~readable
  THEN [rc |-> IOError, key |-> 0, rid |-> 0, cursor |-> c]
  ELSE IF LeafReadEntryRc(leaf, c.eid) # OK
  THEN [rc |-> LeafReadEntryRc(leaf, c.eid), key |-> 0, rid |-> 0, cursor |-> c]
  ELSE [rc |-> IF CursorOutOfRange(c) THEN RC_INVALID_CURSOR ELSE OK,
        key |-> leaf.entries[c.eid + 1][1], rid |-> leaf.entries[c.eid + 1][2],
        cursor |-> Advance(c, leaf)]

\* BTreeIndex::readForward(cursor, key, rid) on a cursor c, the page cursor.pid
\* being readable or not and decoding to leaf: what it returns and the cursor it leaves.
ReadForwardOf(c, readable, leaf) ==
  IF ~readable
  THEN [rc |-> IOError, key |-> 0, rid |-> 0, cursor |-> c]
  ELSE IF LeafReadEntryRc(leaf, c.eid) # OK
  THEN [rc |-> LeafReadEntryRc(leaf, c.eid), key |-> 0, rid |-> 0, cursor |-> c]
  ELSE IF CursorOutOfRange(c)
  THEN [rc |-> RC_INVALID_CURSOR, key |-> leaf.entries[c.eid + 1][1],
        rid |-> leaf.entries[c.eid + 1][2], cursor |-> c]
  ELSE [rc |-> OK, key |-> leaf.entries[c.eid + 1][1],
        rid |-> leaf.entries[c.eid + 1][2], cursor |-> Advance(c, leaf)]

ReadForward ==
  /\ pc = "idle"
  /\ pf # 0
  /\ Usable
  /\ \E leaf \in (IF PfReadable(cursor.pid) THEN LeafViews(cursor.pid) ELSE {NoNode}) :
       LET r == ReadForwardOf(cursor, PfReadable(cursor.pid), leaf) IN
       /\ cursor' = r.cursor
       /\ res' = [NoRes EXCEPT !.op = "readForward", !.rc = r.rc, !.key = r.key,
                               !.rid = r.rid, !.atEnd = track.ended,
                               !.pid = cursor.pid, !.eid = cursor.eid,
                               !.lrc = IF track.src = "locate" THEN track.rc ELSE "",
                               !.lkey = track.key, !.sound = SoundTree]
       /\ track' = IF r.rc = OK
                   THEN [src |-> "read", key |-> 0, rc |-> "",
                         ended |-> /\ ImageNode(image[pf], cursor.pid).kind = "leaf"
                                   /\ r.cursor.pid = EndOfChain]
                   ELSE track
  /\ UNCHANGED <<image, endPid, meta, inserted, closedAt, pf, rootPid, treeHeight, buffer,
                 fresh, pc, searchKey, curHeight, nextChild>>

(* ----------------- a caller that uses the index directly -------------- *)

CallNew == NewIndex /\ UNCHANGED <<load, sel>>

CallOpen ==
  \E f \in Files, mode \in {"r", "w"}, io \in BOOLEAN :
    Open(f, mode, io) /\ UNCHANGED <<load, sel>>

CallClose == \E io \in BOOLEAN : Close(io) /\ UNCHANGED <<load, sel>>

CallInsert == \E k \in InsertKeys : Insert(k) /\ UNCHANGED <<load, sel>>

CallSetCursor ==
  \E pid \in -1..MaxCursor, eid \in CursorEids :
    SetCursor(pid, eid) /\ UNCHANGED <<load, sel>>

CallLocate == \E k \in SearchKeys : LocateBegin(k) /\ UNCHANGED <<load, sel>>

StepLocateDescend == LocateDescend /\ UNCHANGED <<load, sel>>

StepLocateLeaf == LocateLeaf /\ UNCHANGED <<load, sel>>

CallReadForward == ReadForward /\ UNCHANGED <<load, sel>>

Next ==
  \/ CallNew
  \/ CallOpen
  \/ CallClose
  \/ CallInsert
  \/ CallSetCursor
  \/ CallLocate
  \/ StepLocateDescend
  \/ StepLocateLeaf
  \/ CallReadForward

Spec == Init /\ [][Next]_vars

(* --------------------------- SqlEngine::load -------------------------- *)

\* The longest load file.
MaxLines == 2

RC_INVALID_FILE_FORMAT == "RC_INVALID_FILE_FORMAT"

\* A line of the load file: the integer it starts with, and whether a comma follows.
Lines == [key : InsertKeys, comma : BOOLEAN]

LoadFiles == UNION {[1..n -> Lines] : n \in 0..MaxLines}

\* SqlEngine::parseLoadLine: the key is read first, a line without a comma is refused.
ParseLoadLine(line) == IF line.comma THEN OK ELSE RC_INVALID_FILE_FORMAT

\* What load leaves when it returns rc after rf.close().
LoadReturnedClosed(rc) == [load EXCEPT !.pc = "returned", !.rc = rc, !.rf = FALSE]

\* What load leaves when it returns rc from inside its loop: a bare return.
LoadReturned(rc) == [load EXCEPT !.pc = "returned", !.rc = rc]

\* load(table, loadfile, TRUE) is called: its BTreeIndex is constructed, and
\* rf.open(table + ".tbl", 'w') succeeds (io) or fails.
LoadBegin(input, io) ==
  /\ load.pc \in {"idle", "returned"}
  /\ pc = "idle"
  /\ pf' = 0
  /\ rootPid' = -1
  /\ treeHeight' = 0
  /\ buffer' = <<0, 0>>
  /\ fresh' = TRUE
  /\ inserted' = {}
  /\ cursor' = NoCursor
  /\ track' = ClientTrack
  /\ closedAt' = NoClose
  /\ res' = [NoRes EXCEPT !.op = "new"]
  /\ load' = IF io
             THEN [pc |-> "open", rf |-> TRUE, idx |-> FALSE, input |-> input, rc |-> OK]
             ELSE [pc |-> "returned", rf |-> FALSE, idx |-> FALSE, input |-> input,
                   rc |-> IOError]
  /\ UNCHANGED <<image, endPid, meta, pc, searchKey, curHeight, nextChild, sel>>

\* bTree.open(table + ".idx", 'w'): a failure is returned at once.
LoadOpenIndex(f, io) ==
  /\ load.pc = "open"
  /\ Open(f, "w", io)
  /\ load' = IF res'.rc = OK
             THEN [load EXCEPT !.pc = "loop", !.idx = TRUE]
             ELSE LoadReturned(res'.rc)
  /\ UNCHANGED sel

\* getline gives a line that parseLoadLine refuses.
LoadBadLine ==
  /\ load.pc = "loop"
  /\ load.input # <<>>
  /\ ParseLoadLine(Head(load.input)) # OK
  /\ load' = LoadReturned(ParseLoadLine(Head(load.input)))
  /\ UNCHANGED <<ivars, sel>>

\* rf.append fails for a line that parses.
LoadAppendFails ==
  /\ load.pc = "loop"
  /\ load.input # <<>>
  /\ ParseLoadLine(Head(load.input)) = OK
  /\ load' = LoadReturned(IOError)
  /\ UNCHANGED <<ivars, sel>>

\* A line is parsed, appended to the record file and inserted into the index.
LoadLine ==
  /\ load.pc = "loop"
  /\ load.input # <<>>
  /\ ParseLoadLine(Head(load.input)) = OK
  /\ Insert(Head(load.input).key)
  /\ load' = IF res'.rc = OK
             THEN [load EXCEPT !.input = Tail(load.input)]
             ELSE LoadReturned(res'.rc)
  /\ UNCHANGED sel

\* End of the load file: bTree.close() (its result is dropped), rf.close(), return 0.
LoadEnd(io) ==
  /\ load.pc = "loop"
  /\ load.input = <<>>
  /\ Close(io)
  /\ load' = LoadReturnedClosed(OK)
  /\ UNCHANGED sel

LoadNext ==
  \/ \E input \in LoadFiles, io \in BOOLEAN : LoadBegin(input, io)
  \/ \E f \in Files, io \in BOOLEAN : LoadOpenIndex(f, io)
  \/ LoadBadLine
  \/ LoadAppendFails
  \/ LoadLine
  \/ \E io \in BOOLEAN : LoadEnd(io)

LoadSpec == Init /\ [][LoadNext]_vars

(* -------------------------- SqlEngine::select ------------------------- *)

\* The most tuples in a table.
MaxRows == 2

\* The largest and the smallest int.
IntMax == 2147483647

IntMin == -IntMax - 1

\* Keys of tuples and values of conditions: the ends of the range and its middle.
KeyValues == {IntMin, -1, 0, 1, IntMax}

Comps == {"EQ", "NE", "GT", "LT", "GE", "LE"}

\* A condition on the key attribute (attr = 1): comp and atoi(value).
Conds == [comp : Comps, v : KeyValues]

Tables == UNION {[1..n -> KeyValues] : n \in 0..MaxRows}

\* Whether key - v is outside the range of int.
Overflows(x, v) == (v < 0 /\ x > IntMax + v) \/ (v > 0 /\ x < IntMin + v)

\* key - v reduced modulo 2^32 into the range of int, for a difference that overflows.
Wrapped(x, v) ==
  IF v < 0
  THEN (x - IntMax - 1) + (IntMin - v)
  ELSE ((x - IntMin) + (IntMax - v)) + 1

\* diff = key - atoi(cond[i].value). Signed overflow is undefined: a build
\* either wraps the difference around, or compares as if the difference did
\* not overflow (a value with the sign of the exact difference).
Diffs(x, v) ==
  IF Overflows(x, v)
  THEN {Wrapped(x, v), IF x > v THEN 1 ELSE -1}
  ELSE {x - v}

\* switch (cond[i].comp): whether the tuple is skipped (goto next_tuple).
Skipped(comp, diff) ==
  CASE comp = "EQ" -> diff # 0
    [] comp = "NE" -> diff = 0
    [] comp = "GT" -> diff <= 0
    [] comp = "LT" -> diff >= 0
    [] comp = "GE" -> diff < 0
    [] comp = "LE" -> diff > 0

\* select(attr, table, cond) is called with at most one condition, on the
\* key; rf.open(table + ".tbl", 'r') succeeds (io) or fails.
SelectBegin(table, cond, io) ==
  /\ sel.pc = "idle"
  /\ sel' = IF io
            THEN [pc |-> "scan", all |-> table, table |-> table, cond |-> cond,
                  matched |-> <<>>, count |-> 0, rc |-> OK]
            ELSE [pc |-> "returned", all |-> table, table |-> table, cond |-> cond,
                  matched |-> <<>>, count |-> 0, rc |-> IOError]
  /\ UNCHANGED <<ivars, load>>

\* One round of the scan: rf.read fails (goto exit_select), or the tuple is
\* tested against the condition, counted and printed if it passes, and the
\* scan moves on.
SelectTuple(io) ==
  /\ sel.pc = "scan"
  /\ sel.table # <<>>
  /\ IF ~io
     THEN sel' = [sel EXCEPT !.pc = "returned", !.rc = IOError]
     ELSE \E diff \in (IF sel.cond = <<>> THEN {0}
                       ELSE Diffs(Head(sel.table), sel.cond[1].v)) :
            LET skip == sel.cond # <<>> /\ Skipped(sel.cond[1].comp, diff)
            IN sel' = [sel EXCEPT !.table = Tail(sel.table),
                                  !.matched = IF skip THEN @ ELSE Append(@, Head(sel.table)),
                                  !.count = IF skip THEN @ ELSE @ + 1]
  /\ UNCHANGED <<ivars, load>>

\* rid reaches rf.endRid(): rc = 0, rf.close(), return.
SelectEnd ==
  /\ sel.pc = "scan"
  /\ sel.table = <<>>
  /\ sel' = [sel EXCEPT !.pc = "returned", !.rc = OK]
  /\ UNCHANGED <<ivars, load>>

SelectNext ==
  \/ \E table \in Tables, cond \in {<<>>} \cup {<<c>> : c \in Conds}, io \in BOOLEAN :
       SelectBegin(table, cond, io)
  \/ \E io \in BOOLEAN : SelectTuple(io)
  \/ SelectEnd

SelectSpec == Init /\ [][SelectNext]_vars

\* Whether x compares to v the way comp says, under integer order.
Compares(comp, x, v) ==
  CASE comp = "EQ" -> x = v
    [] comp = "NE" -> x # v
    [] comp = "GT" -> x > v
    [] comp = "LT" -> x < v
    [] comp = "GE" -> x >= v
    [] comp = "LE" -> x <= v

(* ------------------- what the index file should hold ------------------ *)

\* The entries stored in the leaves of the open file.
BaseEntries ==
  UNION {{ImageNode(image[pf], p).entries[i] : i \in 1..Len(ImageNode(image[pf], p).entries)} :
           p \in 1..MaxCursor}

\* The entries of a set in ascending key order.
RECURSIVE AscendingSeq(_)
AscendingSeq(S) ==
  IF S = {} THEN <<>>
  ELSE LET m == CHOOSE e \in S : \A x \in S : e[1] <= x[1]
       IN <<m>> \o AscendingSeq(S \ {m})

\* The first leaf: the leftmost page h - 1 levels below pid.
RECURSIVE FirstLeaf(_, _)
FirstLeaf(pid, h) ==
  IF h <= 1 THEN pid
  ELSE IF PfReadable(pid) /\ ImageNode(image[pf], pid).kind = "internal"
  THEN FirstLeaf(ImageNode(image[pf], pid).children[1], h - 1)
  ELSE -1

\* The entries repeated readForward calls return from cursor c until one fails.
RECURSIVE ScanFrom(_, _)
ScanFrom(c, fuel) ==
  IF fuel = 0 \/ ~PfReadable(c.pid) \/ ImageNode(image[pf], c.pid).kind # "leaf"
  THEN <<>>
  ELSE LET r == ReadForwardOf(c, TRUE, ImageNode(image[pf], c.pid))
       IN IF r.rc # OK THEN <<>>
          ELSE <<(<<r.key, r.rid>>)>> \o ScanFrom(r.cursor, fuel - 1)

\* The depths (root = d) of the leaves reachable from page pid.
RECURSIVE LeafDepths(_, _)
LeafDepths(pid, d) ==
  IF pid < 1 \/ ~PfReadable(pid) THEN {}
  ELSE LET n == ImageNode(image[pf], pid)
       IN IF n.kind = "leaf" THEN {d}
          ELSE UNION {LeafDepths(n.children[i], d + 1) : i \in 1..Len(n.children)}

\* The tree has a node: rootPid names a node page of the file.
HasNodes == rootPid >= 1 /\ PfReadable(rootPid)

(* ------------------------------ claims -------------------------------- *)

\* C1: after a successful Index.insert on an open index whose in-memory root
\* and height are those of its file, reading forward from entry 0 of the first
\* leaf until readForward fails yields exactly the stored and the inserted
\* entries, each once, in ascending key order, each with its locator.
C1_ScanYieldsInserted ==
  (/\ res.op = "insert"
   /\ res.rc = OK
   /\ SoundTree \/ (EmptyTree /\ image[pf] \in {"absent", "empty"}))
  => ScanFrom([pid |-> FirstLeaf(rootPid, treeHeight), eid |-> 0], ScanFuel)
       = AscendingSeq(BaseEntries \cup inserted)

\* C2: a successful close() of a non-empty tree (rootPid = R > 0, treeHeight
\* = H >= 1) followed by a successful open() of the same file by a fresh index
\* object yields getRoot() = R and getHeight() = H.
C2_PersistenceRoundTrip ==
  (/\ res.op = "open"
   /\ res.rc = OK
   /\ res.fresh
   /\ res.closed.file # 0
   /\ res.closed.root > 0
   /\ res.closed.height >= 1)
  => (rootPid = res.closed.root /\ treeHeight = res.closed.height)

\* C3: after any insert on an open index every leaf reachable from rootPid is
\* at depth getHeight() (the root at depth 1), and getHeight() = 0 exactly when
\* the tree has no nodes.
C3_Balanced ==
  (res.op = "insert" /\ pf # 0)
  => (/\ LeafDepths(rootPid, 1) \subseteq {treeHeight}
      /\ (treeHeight = 0) <=> ~HasNodes)

\* C4: on a non-empty tree, readForward on the cursor locate(k) returned gives
\* key k when locate succeeded; when locate returned not-found it gives the
\* smallest stored key greater than k, or fails when no stored key is greater.
C4_LocateThenReadForward ==
  (res.op = "readForward" /\ res.lrc # "" /\ res.sound)
  => LET k == res.lkey
         greater == {e[1] : e \in {x \in BaseEntries : x[1] > k}}
     IN IF res.lrc = OK
        THEN res.rc = OK /\ res.key = k
        ELSE IF greater # {}
        THEN res.rc = OK /\ res.key \in greater /\ \A x \in greater : res.key <= x
        ELSE res.rc # OK

\* C5: on an open index with the empty tree locate(k) returns the
\* no-such-record code, having read no node page.
C5_LocateOnEmptyTree ==
  (res.op = "locate" /\ res.empty)
  => (res.rc = RC_NO_SUCH_RECORD /\ res.reads = 0)

\* C6: Index.insert on an open index with treeHeight = 0 returns success and
\* leaves getHeight() = 1 and getRoot() >= 1, the page of a leaf that holds
\* exactly the inserted entry.
C6_InsertIntoEmptyTree ==
  (res.op = "insert" /\ res.rc = OK /\ res.empty)
  => (/\ treeHeight = 1
      /\ rootPid >= 1
      /\ PfReadable(rootPid)
      /\ LeafViews(rootPid) = {Leaf(<<(<<res.key, res.rid>>)>>, EndOfChain)})

\* C7: readForward on a cursor whose pid is <= 0 returns the invalid-cursor
\* code, whatever the eid.
C7_InvalidCursor ==
  (res.op = "readForward" /\ res.pid <= 0) => res.rc = RC_INVALID_CURSOR

\* C8: once a successful readForward has moved the cursor to the end of the
\* leaf chain, every later readForward on that cursor fails and leaves the
\* cursor at the end of the chain, so that it fails from then on.
C8_EndOfIteration ==
  (res.op = "readForward" /\ res.atEnd)
  => (res.rc # OK /\ cursor.pid = EndOfChain /\ track.ended)

\* A readForward on a cursor at the end of the chain has read an entry off the
\* page and failed on the cursor's page id.
C8_Witness ==
  res.op = "readForward" /\ res.atEnd /\ res.rc = RC_INVALID_CURSOR

\* C9: after any close() call on an open index, successful or not, the page
\* storage is closed.
C9_CloseReleasesStorage ==
  res.op = "close" => pf = 0

\* C11: open() in write mode on a file with no pages leaves the empty tree in
\* memory and writes to page 0 a metadata page that decodes to the empty tree
\* (no valid rootPid > 0, treeHeight >= 0), whatever the buffer held before.
C11_CreatedMetaIsEmptyTree ==
  (res.op = "open" /\ res.rc = OK /\ res.created)
  => (EmptyTree /\ ~ValidMeta(meta[pf][1], meta[pf][2]))

\* C12: after every successful close() page 0 holds the in-memory rootPid in
\* bytes 0..3 and the in-memory treeHeight in bytes 4..7.
C12_ClosedMetaMatchesMemory ==
  (res.op = "close" /\ res.rc = OK)
  => meta[closedAt.file] = <<closedAt.root, closedAt.height>>

\* The leaf the descent for key k ends in, h - 1 levels below page pid.
RECURSIVE TargetLeaf(_, _, _)
TargetLeaf(pid, h, k) ==
  IF h <= 1 THEN pid
  ELSE TargetLeaf(ChildPtr(ImageNode(image[pf], pid), k), h - 1, k)

\* C13: on a tree whose root and height the index holds, locate(k) returns
\* success or not-found; either way the cursor is (page of the leaf the descent
\* reached, first entry index whose key is >= k), and it returns success exactly
\* when the entry at that index has key k.
C13_LocateCursor ==
  (res.op = "locate" /\ res.sound)
  => LET lp == TargetLeaf(rootPid, treeHeight, res.key)
         es == ImageNode(image[pf], lp).entries
     IN /\ res.rc \in {OK, RC_NO_SUCH_RECORD}
        /\ cursor.pid = lp
        /\ cursor.eid \in 0..Len(es)
        /\ \A i \in 1..Len(es) : IF i <= cursor.eid THEN es[i][1] < res.key
                                                   ELSE es[i][1] >= res.key
        /\ (res.rc = OK) <=> (cursor.eid < Len(es) /\ es[cursor.eid + 1][1] = res.key)

\* locate did not find its key in a leaf below an internal root and left the
\* cursor past an entry of that leaf.
C13_Witness ==
  /\ res.op = "locate"
  /\ res.sound
  /\ res.rc = RC_NO_SUCH_RECORD
  /\ treeHeight = 2
  /\ cursor.eid > 0

\* C14: locate(k) reads treeHeight - 1 internal nodes and then one leaf, in
\* every state open() can produce: while it descends it has never read more
\* than treeHeight - 1 internal nodes (none when treeHeight is 0), and when it
\* returns success or not-found it has read treeHeight node pages.
C14_LocateReads ==
  /\ pc = "descend" => curHeight - 1 <= (IF treeHeight >= 1 THEN treeHeight - 1 ELSE 0)
  /\ (res.op = "locate" /\ res.rc \in {OK, RC_NO_SUCH_RECORD}) => res.reads = treeHeight

\* C15: a successful readForward on cursor (pid, eid) of a leaf page returns
\* the entry at index eid of that leaf and leaves the cursor at (pid, eid + 1)
\* when eid + 1 is below the leaf's key count, at (next leaf of pid, 0) otherwise.
C15_ReadForwardAdvances ==
  (res.op = "readForward" /\ res.rc = OK /\ ImageNode(image[pf], res.pid).kind = "leaf")
  => LET leaf == ImageNode(image[pf], res.pid)
         n == Len(leaf.entries)
     IN /\ res.eid \in 0..(n - 1)
        /\ <<res.key, res.rid>> = leaf.entries[res.eid + 1]
        /\ res.eid + 1 < n => cursor = [pid |-> res.pid, eid |-> res.eid + 1]
        /\ res.eid + 1 >= n => cursor = [pid |-> leaf.next, eid |-> 0]

\* readForward returned the last entry of leaf 1 and moved to entry 0 of leaf 2.
C15_Witness ==
  /\ res.op = "readForward"
  /\ res.rc = OK
  /\ res.pid = 1
  /\ res.key = 30
  /\ cursor = [pid |-> 2, eid |-> 0]

\* C16: whenever readForward returns a failure the cursor is as it was on
\* entry.
C16_FailureKeepsCursor ==
  (res.op = "readForward" /\ res.rc # OK)
  => cursor = [pid |-> res.pid, eid |-> res.eid]

\* readForward read an entry off the page and then failed on the cursor's page id.
C16_Witness ==
  res.op = "readForward" /\ res.rc = RC_INVALID_CURSOR /\ res.key # 0

\* C17: when load, called with an index, returns after its index file was
\* opened successfully, the index has been closed (its page file released,
\* the metadata written to page 0) and the record file has been closed.
C17_LoadClosesFiles ==
  (load.pc = "returned" /\ load.idx) => (pf = 0 /\ res.op = "close" /\ ~load.rf)

\* C18: a select with a condition on the key prints and counts exactly the
\* tuples whose key compares to the condition's value that way under integer
\* order, whatever 32-bit keys and values are involved.
C18_KeyConditionIsIntegerOrder ==
  (sel.pc = "returned" /\ sel.rc = OK /\ sel.cond # <<>>)
  => LET Holds(x) == Compares(sel.cond[1].comp, x, sel.cond[1].v)
     IN /\ sel.matched = SelectSeq(sel.all, Holds)
        /\ sel.count = Len(SelectSeq(sel.all, Holds))

\* C10: after a successful open() of an existing file whose page 0 fails the
\* test rootPid > 0 and treeHeight >= 0, the index has the empty tree
\* (getRoot() = -1, getHeight() = 0).
C10_InvalidMetaIsEmptyTree ==
  (res.op = "open" /\ res.rc = OK /\ ~res.created /\ ~ValidMeta(res.page0[1], res.page0[2]))
  => EmptyTree
====
